---- MODULE Spec2Model ----
(***************************************************************************)
(* Explicitly cancellable future (more_futures/src/cancellation/future.rs) *)
(*                                                                         *)
(* One task (ExplicitlyCancellableFuture), its CancellationHandle, the     *)
(* SharedState they share, the ExecutionContext the user computation       *)
(* manipulates through CriticalSectionGuards, and the oneshot reply        *)
(* channel read by TerminationObservers.                                   *)
(*                                                                         *)
(* Two threads interleave: the scheduler thread polling the task and the   *)
(* thread calling cancel().  They share only the atomic `cancelled` flag   *)
(* and the mutex-protected `state`; each access to one of the two is an    *)
(* action of its own.  The ExecutionContext is only touched from inside    *)
(* the task's poll (by poll itself and by the user computation).           *)
(***************************************************************************)
EXTENDS Integers, Sequences, FiniteSets

\* Cap on prevent_cancellation (usize in the source; the cap keeps the model finite).
MaxPrevent == 3
\* Number of distinct wakers a poll can be called with.
NumWakers == 2

VARIABLES
    cancelled,            \* SharedStateData.cancelled (AtomicBool)
    state,                \* SharedStateData.state: [tag, waker]
    started,              \* ExplicitlyCancellableFuture.started
    cx,                   \* the waker of the Context the latest poll was called with
    prevent_cancellation, \* ExecutionContextData.prevent_cancellation
    notification,         \* ExecutionContextData.cancellation_notification.tx
    notified,             \* number of () sent on the notification channel
    guards,               \* live CriticalSectionGuards whose `shared` is Some
    observer_rx,          \* a CancellationObserver has been handed out
    returned,             \* the latest call on the context or a guard: [op, val]
    future,               \* the user future: Unpolled / Running / Suspended / Completed
    pc,                   \* position of the scheduler thread in poll()
    is_cancelled,         \* poll_inner's local `is_cancelled`
    poll,                 \* the value poll() returns / last returned
    scheduled,            \* the task is in the scheduler's run queue (spawned or woken)
    woken,                \* wakers that cancel() has woken, in order
    task,                 \* the task object: alive / dropped
    handle,               \* the CancellationHandle: alive / cancelling / consumed / dropped
    found,                \* the State variant cancel() matched on under the lock
    tx,                   \* where the reply Sender is: handle / state / sent / dropped
    sent,                 \* statuses sent on the reply channel: [by, status]
    observers,            \* a TerminationObserver exists
    observed              \* statuses TerminationObservers have resolved to

vars == <<cancelled, state, started, cx, prevent_cancellation, notification, notified,
          guards, observer_rx, returned, future, pc, is_cancelled, poll, scheduled, woken,
          task, handle, found, tx, sent, observers, observed>>

sharedVars == <<cancelled, state>>
executionVars == <<prevent_cancellation, notification, notified, guards, observer_rx,
                   returned>>
pollVars == <<started, cx, future, pc, is_cancelled, poll>>
handleVars == <<handle, found, tx, sent, observers>>

Wakers == 1..NumWakers

\* enum State
StatePending == [tag |-> "Pending", waker |-> 0]
StatePolled(w) == [tag |-> "Polled", waker |-> w]
StateCancelled == [tag |-> "Cancelled", waker |-> 0]
StateExited == [tag |-> "Exited", waker |-> 0]

\* can_exit, were it to ignore the counter
can_exit_always(n) == TRUE

\* can_exit, were it to report a held counter at all times
can_exit_never(n) == FALSE

\* ExecutionContextData::can_exit
can_exit(n) == n = 0

\* exit_prevent_cancellation, were it to leave the counter as it is
exit_prevent_cancellation_leak(n) == n

\* ExecutionContextData::exit_prevent_cancellation: the counter after `-= 1`
exit_prevent_cancellation(n) == n - 1

\* the guard's drop, were it to release the hold whether or not the guard was consumed
CriticalSectionGuardDrop_always(shared, c) == exit_prevent_cancellation(c)

\* Drop for CriticalSectionGuard: the counter it leaves, c being the counter it
\* finds and `shared` telling whether the guard's `shared` is still Some
CriticalSectionGuardDrop(shared, c) == IF shared THEN exit_prevent_cancellation(c) ELSE c

\* notify_cancelled, were it to leave the notification as it is
notify_cancelled_noop(n) == n

\* ExecutionContextData::notify_cancelled: the new notification state
notify_cancelled(n) == IF n = "Pending" THEN "Notified" ELSE n

\* notify_cancelled, were it to mark the notification without sending on its channel
notify_sends_never(n) == 0

\* notify_cancelled, were it to send whatever the notification state
notify_sends_always(n) == 1

\* ExecutionContextData::notify_cancelled: how many () it sends
notify_sends(n) == IF n = "Pending" THEN 1 ELSE 0

\* try_to_disable_cancellation, were it to mark an armed notification as Notified
try_to_disable_cancellation_fires(n) == IF n = "Pending" THEN "Notified" ELSE n

\* try_to_disable_cancellation, were it to disarm a notification that has Fired
try_to_disable_cancellation_rearm(n) == "Disabled"

\* try_to_disable_cancellation, were it to report failure once Disabled
try_to_disable_result_once(n) == n = "Pending"

\* ExecutionContextData::try_to_disable_cancellation: the returned flag
try_to_disable_result(n) == n # "Notified"

\* ExecutionContextData::try_to_disable_cancellation: the new notification state
try_to_disable_cancellation(n) == IF n = "Pending" THEN "Disabled" ELSE n

\* A CancellationObserver being awaited: a clone of the shared receiver of the
\* notification channel, it resolves once a () was sent on the channel
CancellationObserverPoll == IF notified > 0 THEN "Ready" ELSE "Pending"

\* TerminationObserver::poll, were it to look at the task again on each await
\* instead of yielding the value the shared receiver resolved to
TerminationObserverPoll_uncached ==
    IF sent # <<>>
       THEN IF task = "dropped" THEN "ExecutorShutdown" ELSE sent[1].status
    ELSE IF tx = "dropped" THEN "ExecutorShutdown"
    ELSE "Pending"

\* TerminationObserver::poll over the shared oneshot receiver
TerminationObserverPoll ==
    IF sent # <<>> THEN sent[1].status
    ELSE IF tx = "dropped" THEN "ExecutorShutdown"
    ELSE "Pending"

\* make_cancellable_future
Init ==
    /\ cancelled = FALSE
    /\ state = StatePending
    /\ started = FALSE
    /\ cx = 0
    /\ prevent_cancellation = 0
    /\ notification = "Pending"
    /\ notified = 0
    /\ guards = 0
    /\ observer_rx = FALSE
    /\ returned = [op |-> "none", val |-> FALSE]
    /\ future = "Unpolled"
    /\ pc = "idle"
    /\ is_cancelled = FALSE
    /\ poll = "Unset"
    /\ scheduled = TRUE
    /\ woken = <<>>
    /\ task = "alive"
    /\ handle = "alive"
    /\ found = "None"
    /\ tx = "handle"
    /\ sent = <<>>
    /\ observers = FALSE
    /\ observed = {}

(***************************************************************************)
(* The scheduler thread: ExplicitlyCancellableFuture::poll                 *)
(***************************************************************************)

\* the registration, were it to overwrite whatever state it finds
PollRegister_overwrite(s, w) == StatePolled(w)

\* poll, first-poll registration: the closure given to take_mut::take
PollRegister(s, w) == IF s.tag = "Pending" THEN StatePolled(w) ELSE s

\* the `if !*this.started` block, were every poll to store its waker
PollStore_refresh(st, s, w) ==
    IF s.tag \in {"Pending", "Polled"} THEN StatePolled(w) ELSE s

\* poll, the `if !*this.started` block: the state it leaves, st being `started`
PollStore(st, s, w) == IF st THEN s ELSE PollRegister(s, w)

\* poll is entered with waker w: the `if !*this.started` block
PollEnter ==
    /\ pc = "idle"
    /\ task = "alive"
    /\ \E w \in Wakers :
          /\ cx' = w
          /\ state' = PollStore(started, state, w)
    /\ started' = TRUE
    /\ scheduled' = FALSE
    /\ pc' = "poll_inner"
    /\ UNCHANGED <<cancelled, executionVars, future, is_cancelled, poll, woken,
                   task, handleVars, observed>>

\* poll_inner up to the inner poll: load the flag, then the pre-poll check
PollInnerPre ==
    /\ pc = "poll_inner"
    /\ is_cancelled' = cancelled
    /\ IF cancelled /\ can_exit(prevent_cancellation)
          THEN /\ poll' = "ReadyNone"
               /\ pc' = "exit"
               /\ UNCHANGED <<notification, notified, future>>
          ELSE /\ notification' = IF cancelled THEN notify_cancelled(notification)
                                               ELSE notification
               /\ notified' = IF cancelled THEN notified + notify_sends(notification)
                                           ELSE notified
               /\ future' = "Running"
               /\ pc' = "future"
               /\ poll' = poll
    /\ UNCHANGED <<sharedVars, started, cx, prevent_cancellation, guards, observer_rx,
                   returned, scheduled, woken, task, handleVars, observed>>

\* poll_inner, were it to lack the check after the inner poll
PollInnerPost_unchecked(res, c) == res

\* poll_inner, were its check after the inner poll to override a Ready result only
PollInnerPost_ready_only(res, c) ==
    IF is_cancelled /\ can_exit(c) /\ res # "Pending" THEN "ReadyNone" ELSE res

\* poll_inner after the inner poll returned res, given the counter c
PollInnerPost(res, c) == IF is_cancelled /\ can_exit(c) THEN "ReadyNone" ELSE res

\* the user future returns Poll::Pending, having arranged its own wake-up or not
FuturePending ==
    /\ pc = "future"
    /\ \E wake \in BOOLEAN : scheduled' = (scheduled \/ wake)
    /\ future' = "Suspended"
    /\ poll' = PollInnerPost("Pending", prevent_cancellation)
    /\ pc' = IF poll' = "Pending" THEN "idle" ELSE "exit"
    /\ UNCHANGED <<sharedVars, started, cx, executionVars, is_cancelled, woken, task,
                   handleVars, observed>>

\* the user future returns Poll::Ready(v); its locals, the guards among them, are dropped
FutureReady ==
    /\ pc = "future"
    /\ future' = "Completed"
    /\ prevent_cancellation' = prevent_cancellation - guards
    /\ guards' = 0
    /\ poll' = PollInnerPost("ReadySome", prevent_cancellation')
    /\ pc' = "exit"
    /\ UNCHANGED <<sharedVars, started, cx, notification, notified, observer_rx,
                   returned, is_cancelled, scheduled, woken, task, handleVars, observed>>

\* the handoff, were it to report Cancelled whatever the counter
HandoffStatus_cancelled(c) == "Cancelled"

\* the handoff, were it to report Finished whatever the counter
HandoffStatus_finished(c) == "Finished"

\* poll, `State::Cancelled { tx }` arm: the status sent on tx
HandoffStatus(c) == IF can_exit(c) THEN "Cancelled" ELSE "Finished"

\* the handoff, were it to return the inner result after sending Cancelled
HandoffResult_natural(p, c) == p

\* poll, `State::Cancelled { tx }` arm: the value poll returns
HandoffResult(p, c) == IF can_exit(c) THEN "ReadyNone" ELSE p

\* poll, `match state`: what is sent on the reply channel, s being the state replaced
PollSends(s, c) ==
    IF s.tag = "Cancelled"
       THEN <<[by |-> "poll", status |-> HandoffStatus(c)]>>
       ELSE <<>>

\* poll, `if poll.is_ready()`: swap the state to Exited and answer a pending cancel
PollExit ==
    /\ pc = "exit"
    /\ state' = StateExited
    /\ sent' = sent \o PollSends(state, prevent_cancellation)
    /\ IF state.tag = "Cancelled"
          THEN /\ tx' = "sent"
               /\ poll' = HandoffResult(poll, prevent_cancellation)
          ELSE UNCHANGED <<tx, poll>>
    /\ pc' = "done"
    /\ UNCHANGED <<cancelled, started, cx, executionVars, future, is_cancelled, scheduled,
                   woken, task, handle, found, observers, observed>>

\* the task's drop, were the state (and a sender in it) to outlive the task
TaskDropTx_leak(t, h) == t

\* the task's Arc<SharedStateData> is dropped: a sender held in State::Cancelled
\* goes with it when the handle h no longer holds the other Arc
TaskDropTx(t, h) ==
    IF t = "state" /\ h # "alive" /\ h # "cancelling" THEN "dropped" ELSE t

\* the scheduler drops the task between polls or after it finished
DropTask ==
    /\ pc \in {"idle", "done"}
    /\ task = "alive"
    /\ task' = "dropped"
    /\ scheduled' = FALSE
    /\ prevent_cancellation' = prevent_cancellation - guards
    /\ guards' = 0
    /\ tx' = TaskDropTx(tx, handle)
    /\ UNCHANGED <<sharedVars, pollVars, notification, notified, observer_rx, returned,
                   woken, handle, found, sent, observers, observed>>

(***************************************************************************)
(* The user computation, while its future is being polled                  *)
(***************************************************************************)

\* ExecutionContext::enter_critical_section
EnterCriticalSection ==
    /\ pc = "future"
    /\ prevent_cancellation < MaxPrevent
    /\ prevent_cancellation' = prevent_cancellation + 1
    /\ guards' = guards + 1
    /\ returned' = [op |-> "enter_critical_section", val |-> TRUE]
    /\ UNCHANGED <<sharedVars, pollVars, notification, notified, observer_rx,
                   scheduled, woken, task, handleVars, observed>>

\* ExecutionContext::enter_structured_cancellation
EnterStructuredCancellation ==
    /\ pc = "future"
    /\ prevent_cancellation < MaxPrevent
    /\ prevent_cancellation' = prevent_cancellation + 1
    /\ guards' = guards + 1
    /\ observer_rx' = TRUE
    /\ returned' = [op |-> "enter_structured_cancellation", val |-> TRUE]
    /\ UNCHANGED <<sharedVars, pollVars, notification, notified,
                   scheduled, woken, task, handleVars, observed>>

\* CriticalSectionGuard::exit_prevent_cancellation: `self` is taken by value, so
\* the guard, its `shared` taken, is dropped as the call returns
ExitPreventCancellation ==
    /\ pc = "future"
    /\ guards > 0
    /\ guards' = guards - 1
    /\ prevent_cancellation' =
          CriticalSectionGuardDrop(FALSE, exit_prevent_cancellation(prevent_cancellation))
    /\ returned' = [op |-> "exit_prevent_cancellation",
                    val |-> exit_prevent_cancellation(prevent_cancellation) = 0]
    /\ UNCHANGED <<sharedVars, pollVars, notification, notified, observer_rx,
                   scheduled, woken, task, handleVars, observed>>

\* Drop for CriticalSectionGuard, the guard's `shared` still being Some
GuardDrop ==
    /\ pc = "future"
    /\ guards > 0
    /\ guards' = guards - 1
    /\ prevent_cancellation' = CriticalSectionGuardDrop(TRUE, prevent_cancellation)
    /\ returned' = [op |-> "drop", val |-> TRUE]
    /\ UNCHANGED <<sharedVars, pollVars, notification, notified, observer_rx,
                   scheduled, woken, task, handleVars, observed>>

\* the guard's try_to_disable_cancellation, were it to release its hold on success too
TryToDisableCounter_release(n, c) == exit_prevent_cancellation(c)

\* CriticalSectionGuard::try_to_disable_cancellation: the counter it leaves,
\* n being the notification and c the counter it finds
TryToDisableCounter(n, c) ==
    IF try_to_disable_result(n) THEN c ELSE exit_prevent_cancellation(c)

\* CriticalSectionGuard::try_to_disable_cancellation: `self` is taken by value, so
\* the guard, its `shared` taken, is dropped as the call returns
TryToDisableCancellation ==
    /\ pc = "future"
    /\ guards > 0
    /\ guards' = guards - 1
    /\ notification' = try_to_disable_cancellation(notification)
    /\ prevent_cancellation' =
          CriticalSectionGuardDrop(FALSE,
                                   TryToDisableCounter(notification, prevent_cancellation))
    /\ returned' = [op |-> "try_to_disable_cancellation",
                    val |-> try_to_disable_result(notification)]
    /\ UNCHANGED <<sharedVars, pollVars, notified, observer_rx,
                   scheduled, woken, task, handleVars, observed>>

(***************************************************************************)
(* The thread holding the CancellationHandle                               *)
(***************************************************************************)

\* CancellationHandle::termination_observer
TerminationObserver ==
    /\ handle = "alive"
    /\ observers = FALSE
    /\ observers' = TRUE
    /\ UNCHANGED <<sharedVars, executionVars, pollVars, scheduled, woken, task,
                   handle, found, tx, sent, observed>>

\* cancel, were it to go to the state without storing the flag first
CancelStore_unflagged ==
    /\ handle = "alive"
    /\ handle' = "cancelling"
    /\ UNCHANGED <<sharedVars, executionVars, pollVars, scheduled, woken, task,
                   found, tx, sent, observers, observed>>

\* CancellationHandle::cancel, the store to `cancelled`
CancelStore ==
    /\ handle = "alive"
    /\ cancelled' = TRUE
    /\ handle' = "cancelling"
    /\ UNCHANGED <<state, executionVars, pollVars, scheduled, woken, task,
                   found, tx, sent, observers, observed>>

\* cancel, were it to answer on the channel whatever state it finds
CancelSends_eager(s) == <<[by |-> "cancel", status |-> "Finished"]>>

\* cancel, were it to drop the sender when it finds Exited
CancelSends_never(s) == <<>>

\* cancel, `match state`: what cancel itself sends on the reply channel
CancelSends(s) ==
    IF s.tag = "Exited"
       THEN <<[by |-> "cancel", status |-> "Finished"]>>
       ELSE <<>>

\* cancel, were it to install Cancelled without waking the stored waker
CancelWakes_none(s) == <<>>

\* cancel, were it to wake whatever the state holds in place of a waker
CancelWakes_any(s) == <<s.waker>>

\* cancel, `match state`: the wakers cancel wakes
CancelWakes(s) == IF s.tag = "Polled" THEN <<s.waker>> ELSE <<>>

\* cancel, were it to take `&self` and leave the handle usable for another cancel()
CancelLock_by_ref ==
    /\ handle = "cancelling"
    /\ found' = state.tag
    /\ handle' = "alive"
    /\ observers' = TRUE
    /\ sent' = sent \o CancelSends(state)
    /\ woken' = woken \o CancelWakes(state)
    /\ scheduled' = IF CancelWakes(state) # <<>> THEN task = "alive" ELSE scheduled
    /\ state' = IF state.tag \in {"Pending", "Polled"} THEN StateCancelled ELSE state
    /\ tx' = IF state.tag = "Exited" THEN "sent" ELSE "state"
    /\ UNCHANGED <<cancelled, executionVars, pollVars, task, observed>>

\* CancellationHandle::cancel, the match under the state lock, and the return
CancelLock ==
    /\ handle = "cancelling"
    /\ found' = state.tag
    /\ handle' = "consumed"
    /\ observers' = TRUE
    /\ sent' = sent \o CancelSends(state)
    /\ woken' = woken \o CancelWakes(state)
    /\ scheduled' = IF CancelWakes(state) # <<>> THEN task = "alive" ELSE scheduled
    /\ CASE state.tag = "Exited" ->
              /\ tx' = "sent"
              /\ UNCHANGED state
         [] state.tag \in {"Pending", "Polled"} ->
              /\ state' = StateCancelled
              /\ tx' = IF task = "dropped" THEN "dropped" ELSE "state"
         [] OTHER ->
              \* unreachable!(): the handle, and the sender in it, unwinds
              /\ tx' = "dropped"
              /\ UNCHANGED state
    /\ UNCHANGED <<cancelled, executionVars, pollVars, task, observed>>

\* the handle's drop, were it to cancel the task as cancel() does
DropHandle_cancels ==
    /\ handle = "alive"
    /\ handle' = "dropped"
    /\ cancelled' = TRUE
    /\ tx' = "dropped"
    /\ UNCHANGED <<state, executionVars, pollVars, scheduled, woken, task,
                   found, sent, observers, observed>>

\* the CancellationHandle is dropped without cancel()
DropHandle ==
    /\ handle = "alive"
    /\ handle' = "dropped"
    /\ tx' = "dropped"
    /\ UNCHANGED <<sharedVars, executionVars, pollVars, scheduled, woken, task,
                   found, sent, observers, observed>>

\* a TerminationObserver is polled and resolves
ObserverPoll ==
    /\ observers
    /\ TerminationObserverPoll # "Pending"
    /\ observed' = observed \cup {TerminationObserverPoll}
    /\ UNCHANGED <<sharedVars, executionVars, pollVars, scheduled, woken, task,
                   handleVars>>

Next ==
    \/ PollEnter
    \/ PollInnerPre
    \/ FuturePending
    \/ FutureReady
    \/ PollExit
    \/ DropTask
    \/ EnterCriticalSection
    \/ EnterStructuredCancellation
    \/ ExitPreventCancellation
    \/ GuardDrop
    \/ TryToDisableCancellation
    \/ TerminationObserver
    \/ CancelStore
    \/ CancelLock
    \/ DropHandle
    \/ ObserverPoll

Spec == Init /\ [][Next]_vars

\* The scheduler polls a task that is in its run queue, a poll once entered runs
\* to its return (the user future returns from each poll), and cancel() once
\* called runs to its return.
Fairness ==
    /\ WF_vars(scheduled /\ PollEnter)
    /\ WF_vars(PollInnerPre)
    /\ WF_vars(FuturePending \/ FutureReady)
    /\ WF_vars(PollExit)
    /\ WF_vars(CancelLock)

FairSpec == Spec /\ Fairness

\* the well-formedness of the model's state
TypeOK ==
    /\ cancelled \in BOOLEAN
    /\ state.tag \in {"Pending", "Polled", "Cancelled", "Exited"}
    /\ state.waker \in 0..NumWakers
    /\ started \in BOOLEAN
    /\ cx \in 0..NumWakers
    /\ prevent_cancellation \in 0..MaxPrevent
    /\ notification \in {"Pending", "Notified", "Disabled"}
    /\ guards \in 0..MaxPrevent
    /\ pc \in {"idle", "poll_inner", "future", "exit", "done"}
    /\ poll \in {"Unset", "Pending", "ReadyNone", "ReadySome"}
    /\ task \in {"alive", "dropped"}
    /\ handle \in {"alive", "cancelling", "consumed", "dropped"}
    /\ found \in {"None", "Pending", "Polled", "Exited", "Cancelled"}
    /\ tx \in {"handle", "state", "sent", "dropped"}

(***************************************************************************)
(* Properties                                                              *)
(***************************************************************************)

\* C1: a poll returns Ready(None) only when prevent_cancellation == 0 at the
\* decision: the value poll chose or returned is never Ready(None) while the
\* counter is above zero or a guard is alive, whenever cancel() ran.
C1_NoneOnlyWhenCanExit ==
    poll = "ReadyNone" => (prevent_cancellation = 0 /\ guards = 0)

\* C1 witness: cancel() completed and a poll saw it while a guard was held;
\* that poll returned Pending, not Ready(None).
C1_Witness ==
    /\ state.tag = "Cancelled"
    /\ is_cancelled
    /\ guards > 0
    /\ pc = "idle"
    /\ poll = "Pending"

\* C2, after the inner poll: a poll that read cancelled == true and holds
\* prevent_cancellation == 0 once the inner poll returned does not resolve to
\* Ready(Some(v)) but to Ready(None).
C2_PostBoundary ==
    (pc \in {"exit", "done"} /\ is_cancelled /\ prevent_cancellation = 0)
        => poll = "ReadyNone"

\* C2, before the inner poll: a poll that reads cancelled == true with
\* prevent_cancellation == 0 returns Ready(None) without polling the user future.
C2_PreBoundary ==
    [][(pc = "poll_inner" /\ cancelled /\ prevent_cancellation = 0 /\ pc' # pc)
          => (pc' = "exit" /\ poll' = "ReadyNone" /\ future' = future)]_vars

\* C2: once a poll has read cancelled == true and prevent_cancellation == 0
\* holds at a poll boundary (before or after the inner poll), that poll returns
\* Ready(None), never Ready(Some(v)).
C2_NeverSomeAfterObservedCancel == []C2_PostBoundary /\ C2_PreBoundary

\* C2 witness: the user future returned Ready(v) in a poll that had read the
\* flag, the counter was zero afterwards, and the poll returned Ready(None).
C2_Witness ==
    /\ pc = "done"
    /\ is_cancelled
    /\ future = "Completed"
    /\ poll = "ReadyNone"

\* C3: the reply channel receives at most one status, Finished or Cancelled,
\* sent by cancel() or by the terminal poll but not both, and only after
\* cancel() was called; a sender that was dropped was dropped unsent.
C3_AtMostOneStatus ==
    /\ Len(sent) <= 1
    /\ \A i \in 1..Len(sent) : sent[i].status \in {"Finished", "Cancelled"}
    /\ sent # <<>> => (tx = "sent" /\ handle = "consumed")
    /\ tx = "dropped" => sent = <<>>

\* C3 witness: cancel() moved the sender into the state and the terminal poll
\* answered on it.
C3_Witness ==
    /\ found = "Polled"
    /\ pc = "done"
    /\ sent = <<[by |-> "poll", status |-> "Cancelled"]>>

\* C4: whenever a Termination Observer resolves to Finished, the terminal poll
\* produced Ready(Some(v)) and not Ready(None).
C4_FinishedMeansSome ==
    TerminationObserverPoll = "Finished" => (pc = "done" /\ poll = "ReadySome")

\* C5: whenever a Termination Observer resolves to Cancelled, the terminal poll
\* returned Ready(None).
C5_CancelledMeansNone ==
    TerminationObserverPoll = "Cancelled" => (pc = "done" /\ poll = "ReadyNone")

\* C5 witness: cancel() arrived during a poll whose user future returned
\* Ready(v); the handoff sent Cancelled.
C5_Witness ==
    /\ TerminationObserverPoll = "Cancelled"
    /\ ~is_cancelled
    /\ future = "Completed"

\* the task is suspended between polls while its counter defers cancellation
Deferring ==
    /\ task = "alive"
    /\ pc = "idle"
    /\ future = "Suspended"
    /\ prevent_cancellation > 0

\* C6 as stated: every cancel() call eventually resolves its Termination
\* Observer, the scheduler polling the task after construction and each wake.
C6_CancelAlwaysResolves ==
    (handle = "consumed") ~> (TerminationObserverPoll # "Pending")

\* C6 as amended: after cancel() the observer eventually resolves, unless the
\* computation is suspended holding prevent_cancellation > 0 again and again
\* forever (a section it never leaves, or cancellation it disabled).
C6_ResolvesUnlessDeferredForever ==
    []<>(handle # "consumed" \/ TerminationObserverPoll # "Pending" \/ Deferring)

\* C6 witness: cancel() found the task suspended inside a section, a poll
\* fired the notification, the section was left and the observer resolved.
C6_Witness ==
    /\ found = "Polled"
    /\ notification = "Notified"
    /\ pc = "done"
    /\ TerminationObserverPoll = "Cancelled"

\* C7: if cancel() completes before the task is ever polled, the user
\* computation is never polled, the first poll returns Ready(None), and the
\* observer then resolves to Cancelled.
C7_CancelBeforeFirstPoll ==
    found = "Pending" =>
        /\ future = "Unpolled"
        /\ pc # "future"
        /\ pc \in {"exit", "done"} => poll = "ReadyNone"
        /\ pc = "done" => TerminationObserverPoll = "Cancelled"

\* C7 witness: cancel() found Pending, the task was then polled once and an
\* observer saw Cancelled.
C7_Witness ==
    /\ found = "Pending"
    /\ pc = "done"
    /\ observed = {"Cancelled"}

\* C8: after cancel() found Pending or Polled, the observer stays unresolved
\* until the task's poll returns Ready or the task is dropped.
C8_ObserverPendingUntilExit ==
    (found \in {"Pending", "Polled"} /\ pc # "done" /\ task = "alive")
        => (TerminationObserverPoll = "Pending" /\ observed = {})

\* C8 witness: cancel() found Polled, the task has been polled since and is
\* still suspended inside a section.
C8_Witness ==
    /\ found = "Polled"
    /\ is_cancelled
    /\ pc = "idle"
    /\ guards > 0
    /\ task = "alive"

\* C9: if the task's poll returned Ready (state Exited) before cancel() takes
\* the state, cancel() itself sends Finished and the observer resolves to
\* Finished, never to Cancelled or ExecutorShutdown.
C9_CancelAfterExitFinished ==
    found = "Exited" =>
        /\ sent = <<[by |-> "cancel", status |-> "Finished"]>>
        /\ TerminationObserverPoll = "Finished"
        /\ observed \subseteq {"Finished"}

\* C9 witness: the task completed with a value, cancel() came afterwards and
\* an observer saw Finished.
C9_Witness ==
    /\ found = "Exited"
    /\ poll = "ReadySome"
    /\ observed = {"Finished"}

\* the task is parked with no guard held and cancel() has installed Cancelled
ParkedCancelled ==
    /\ task = "alive"
    /\ state.tag = "Cancelled"
    /\ pc = "idle"
    /\ future = "Suspended"
    /\ prevent_cancellation = 0

\* C10: if cancel() is called while the task is parked (inner future Pending)
\* with prevent_cancellation == 0, the user computation is not polled again,
\* the next poll returns Ready(None), the observer resolves to Cancelled; and
\* the scheduler does poll the woken task, unless it drops it.
C10_ParkedCancelNextPollNone ==
    /\ [](ParkedCancelled =>
            [](/\ future = "Suspended"
               /\ pc \in {"exit", "done"} => poll = "ReadyNone"
               /\ pc = "done" => TerminationObserverPoll = "Cancelled"))
    /\ ParkedCancelled ~>
            (task = "dropped" \/ (pc = "done" /\ TerminationObserverPoll = "Cancelled"))

\* C10 witness: cancel() found the parked task Polled and the next poll ended it.
C10_Witness ==
    /\ found = "Polled"
    /\ future = "Suspended"
    /\ notification = "Pending"
    /\ pc = "done"
    /\ poll = "ReadyNone"
    /\ TerminationObserverPoll = "Cancelled"

\* C11: if cancel() moved the sender into state Cancelled and the task is then
\* dropped without any poll returning Ready, the sender is dropped unsent and
\* the observer resolves to ExecutorShutdown; and ExecutorShutdown is produced
\* exactly when the sender was dropped without ever sending.
C11_DroppedTaskShutsDown ==
    /\ (found \in {"Pending", "Polled"} /\ task = "dropped" /\ pc # "done")
          => (tx = "dropped" /\ sent = <<>>
              /\ TerminationObserverPoll = "ExecutorShutdown")
    /\ "ExecutorShutdown" \in observed => (tx = "dropped" /\ sent = <<>>)
    /\ (tx = "dropped" /\ sent = <<>>) => TerminationObserverPoll = "ExecutorShutdown"

\* C11 witness: cancel() found the task Polled, the task was dropped while
\* suspended, and an observer saw ExecutorShutdown.
C11_Witness ==
    /\ found = "Polled"
    /\ task = "dropped"
    /\ pc = "idle"
    /\ observed = {"ExecutorShutdown"}

\* C12: dropping the Cancellation Handle without cancel() does not cancel the
\* task: the flag stays false, the state is not moved to Cancelled, and no
\* poll returns Ready(None).
C12_DropHandleDoesNotCancel ==
    handle = "dropped" =>
        /\ ~cancelled
        /\ ~is_cancelled
        /\ state.tag # "Cancelled"
        /\ found = "None"
        /\ poll # "ReadyNone"

\* C12 witness: the handle was dropped while the task was suspended, and the
\* task then ran to completion with a value.
C12_Witness ==
    /\ handle = "dropped"
    /\ pc = "done"
    /\ poll = "ReadySome"
    /\ state.tag = "Exited"

\* C13: with the handle dropped without cancel(), an observer obtained from
\* termination_observer() resolves to ExecutorShutdown only if the task was
\* also dropped without reaching Exited, not for a task that is still alive or
\* that exited normally.
C13_ShutdownOnlyIfTaskDropped ==
    (handle = "dropped" /\ "ExecutorShutdown" \in observed)
        => (task = "dropped" /\ state.tag # "Exited")

\* C14, states: the notification channel carries at most one (), it carries
\* one exactly when the notification is Notified, and none once Disabled.
C14_SentAtMostOnce ==
    /\ notified <= 1
    /\ notified = 1 <=> notification = "Notified"
    /\ notification = "Disabled" => notified = 0

\* C14, steps: once Disabled the notification stays Disabled and nothing is
\* sent on its channel, whatever happens (cancel(), polls, new observers).
C14_DisabledAbsorbs ==
    [][notification = "Disabled"
          => (notification' = "Disabled" /\ notified' = notified)]_vars

\* C14: the cancellation notification is sent at most once and never after the
\* notification became Disarmed: then notify_cancelled is a no-op and every
\* Cancellation Observer stays pending even after cancel().
C14_NotifiedAtMostOnceNeverAfterDisarm == []C14_SentAtMostOnce /\ C14_DisabledAbsorbs

\* C14 witness: cancellation was disabled, a structured-cancellation observer
\* exists, and a poll that read the flag has called notify_cancelled.
C14_Witness ==
    /\ notification = "Disabled"
    /\ observer_rx
    /\ is_cancelled
    /\ future = "Running"
    /\ notified = 0

\* C15: after a successful try_to_disable_cancellation() no poll returns
\* Ready(None): the counter stays above zero (above the live guards' share)
\* for the rest of the task's life, whatever cancel(), scope entries and guard
\* exits follow.
C15_DisabledNeverCancelled ==
    (notification = "Disabled"
        \/ returned = [op |-> "try_to_disable_cancellation", val |-> TRUE])
        => /\ notification = "Disabled"
           /\ prevent_cancellation > guards
           /\ poll # "ReadyNone"

\* C15 witness: cancellation was disabled, cancel() then found the task
\* Polled, scopes were entered and left, and the task completed with a value.
C15_Witness ==
    /\ notification = "Disabled"
    /\ found = "Polled"
    /\ observer_rx
    /\ is_cancelled
    /\ pc = "done"
    /\ poll = "ReadySome"

\* C16: a poll that returns Ready while the state is Cancelled and
\* prevent_cancellation > 0 sends Finished on the reply channel, returns the
\* computation's result Ready(Some(v)), and the observer resolves to Finished.
C16_DisabledHandoffFinished ==
    [][(pc = "exit" /\ pc' = "done" /\ state.tag = "Cancelled"
           /\ prevent_cancellation > 0)
          => /\ sent' = <<[by |-> "poll", status |-> "Finished"]>>
             /\ poll = "ReadySome"
             /\ poll' = "ReadySome"
             /\ TerminationObserverPoll' = "Finished"]_vars

\* C16 witness: the handoff found Cancelled with the counter above zero.
C16_Witness ==
    /\ pc = "done"
    /\ found \in {"Pending", "Polled"}
    /\ prevent_cancellation > 0
    /\ sent = <<[by |-> "poll", status |-> "Finished"]>>
    /\ poll = "ReadySome"

\* C17 as stated: in every reachable state in which no Critical-Section Guard
\* is alive, prevent_cancellation is zero.
C17_ZeroWhenNoGuards ==
    guards = 0 => prevent_cancellation = 0

\* C17 as amended: the counter never falls below the number of live guards,
\* and as long as cancellation was not disabled it equals that number, so it
\* is zero when no guard is alive.
C17_BalancedUnlessDisabled ==
    /\ prevent_cancellation >= guards
    /\ notification # "Disabled" => prevent_cancellation = guards

\* C17 witness: scopes were entered and left and a failed
\* try_to_disable_cancellation released its hold; no guard is alive.
C17_Witness ==
    /\ returned = [op |-> "try_to_disable_cancellation", val |-> FALSE]
    /\ observer_rx
    /\ guards = 0
    /\ prevent_cancellation = 0
    /\ future = "Suspended"

\* a step of the user computation that is a call of
\* CriticalSectionGuard::try_to_disable_cancellation
TryToDisableStep ==
    /\ pc = "future"
    /\ pc' = "future"
    /\ guards' = guards - 1
    /\ returned'.op = "try_to_disable_cancellation"

\* C18, the call: with the notification Fired, try_to_disable_cancellation
\* returns failure, leaves the notification Fired and releases the hold its
\* guard took.
C18_FailedDisableStep ==
    [][(TryToDisableStep /\ notification = "Notified")
          => /\ returned'.val = FALSE
             /\ notification' = "Notified"
             /\ prevent_cancellation' = prevent_cancellation - 1]_vars

\* C18, afterwards, whoever answers the observer: after a failed call the
\* counter is the live guards' share and a poll that returns Ready returns
\* Ready(None).
C18_FailedDisableStillNone ==
    [](returned = [op |-> "try_to_disable_cancellation", val |-> FALSE]
          => /\ notification = "Notified"
             /\ prevent_cancellation = guards
             /\ [](pc \in {"exit", "done"} => poll = "ReadyNone"))

\* C18: if the notification has already Fired, try_to_disable_cancellation()
\* returns failure, leaves it Fired and releases the caller's hold, and the
\* task still resolves to Ready(None) with the observer resolving to Cancelled
\* once its scopes exit.
C18_FailedDisableStillCancels ==
    /\ C18_FailedDisableStep
    /\ C18_FailedDisableStillNone
    /\ [](returned = [op |-> "try_to_disable_cancellation", val |-> FALSE]
            => [](pc = "done" =>
                    (handle = "consumed" => TerminationObserverPoll = "Cancelled")))

\* C19: with the notification already Disarmed, try_to_disable_cancellation()
\* returns success, the notification stays Disarmed, and the call leaves the
\* counter and the channel as it found them, as the first successful call did.
C19_DisableIdempotent ==
    [][(TryToDisableStep /\ notification \in {"Pending", "Disabled"})
          => /\ returned'.val = TRUE
             /\ notification' = "Disabled"
             /\ prevent_cancellation' = prevent_cancellation
             /\ notified' = notified]_vars

\* C19 witness: two calls have succeeded, the second finding Disabled.
C19_Witness ==
    /\ returned = [op |-> "try_to_disable_cancellation", val |-> TRUE]
    /\ notification = "Disabled"
    /\ guards = 0
    /\ prevent_cancellation = 2

\* the task is parked inside a structured-cancellation scope, cancel() has
\* installed Cancelled, and the notification is still armed
ParkedInScope ==
    /\ task = "alive"
    /\ state.tag = "Cancelled"
    /\ pc = "idle"
    /\ future = "Suspended"
    /\ observer_rx
    /\ guards > 0
    /\ notification = "Pending"

\* C20: if cancel() is called while the task is parked inside a
\* structured-cancellation scope (counter > 0, notification Armed), the next
\* poll fires the notification before it polls the user computation; and when
\* the body returns, that poll yields Ready(None) and the observer resolves to
\* Cancelled.
C20_ParkedInScopeNotifiedThenNone ==
    [](ParkedInScope =>
         [](/\ future \in {"Running", "Completed"}
                  => (notification = "Notified" /\ notified = 1)
            /\ pc \in {"exit", "done"} => poll = "ReadyNone"
            /\ pc = "done" => TerminationObserverPoll = "Cancelled"))

\* C20 witness: the notification fired, the body returned, and the poll ended
\* the task as cancelled.
C20_Witness ==
    /\ found = "Polled"
    /\ observer_rx
    /\ notification = "Notified"
    /\ future = "Completed"
    /\ pc = "done"
    /\ poll = "ReadyNone"
    /\ observed = {"Cancelled"}

\* C21 as stated: if a poll read cancelled == true before the inner poll and
\* the computation released its last guard during that inner poll (the counter
\* reached zero), that same poll returns Ready(None) whether the inner future
\* returns Pending or Ready(v): the task is never suspended again, and the
\* poll's result is Ready(None).
C21_NoneOnceCounterReachedZero ==
    []((is_cancelled /\ pc = "future" /\ prevent_cancellation = 0)
          => [](/\ pc # "idle"
                /\ pc \in {"exit", "done"} => poll = "ReadyNone"))

\* C21, the step: when the user future returns, Pending or Ready(v), from an
\* inner poll of a poll that had read cancelled == true, and the counter is
\* zero by then, poll_inner returns Ready(None) and the poll goes on to exit.
C21_InnerReturnStep ==
    [][(pc = "future" /\ pc' # "future" /\ is_cancelled /\ prevent_cancellation' = 0)
          => (pc' = "exit" /\ poll' = "ReadyNone")]_vars

\* C21, the states: a live task that read the flag is never left suspended
\* with the counter at zero, and the poll that ends it returns Ready(None).
C21_NotPastOutermostSection ==
    /\ (task = "alive" /\ pc = "idle" /\ is_cancelled) => prevent_cancellation > 0
    /\ (pc = "done" /\ is_cancelled /\ prevent_cancellation = 0) => poll = "ReadyNone"

\* C21 as amended: if a poll read cancelled == true before the inner poll and
\* the counter is zero when that inner poll returns (the last guard was
\* released during it and no scope was entered since), that same poll returns
\* Ready(None) whether the inner future returned Pending or Ready(v); a live
\* task that read the flag is never suspended with the counter at zero.
C21_ExitsAtLastRelease == C21_InnerReturnStep /\ []C21_NotPastOutermostSection

\* C21 witness: a poll fired the notification (the counter was above zero
\* before the inner poll), the user future released its guards and returned
\* Pending, and the poll returned Ready(None).
C21_Witness ==
    /\ notification = "Notified"
    /\ future = "Suspended"
    /\ guards = 0
    /\ pc = "done"
    /\ poll = "ReadyNone"

\* C22, the states: the observers of the task (clones, those from
\* termination_observer(), the one cancel() returned) have resolved to at most
\* one status, the one an observer awaited now yields.
C22_OneStatus ==
    /\ Cardinality(observed) <= 1
    /\ observed # {} => observed = {TerminationObserverPoll}

\* C22, the steps: once an observer can resolve, what it resolves to never
\* changes, so a repeated await yields the same value.
C22_ResolvedIsStable ==
    [][TerminationObserverPoll # "Pending"
          => TerminationObserverPoll' = TerminationObserverPoll]_vars

\* C22: a Termination Observer resolves exactly once: all observers of one
\* task resolve to the same TerminationStatus, and a repeated await yields the
\* same value.
C22_ObserversAgree == []C22_OneStatus /\ C22_ResolvedIsStable

\* C22 witness: an observer resolved to Cancelled, the task and the handle are
\* gone since, and an observer can be awaited again.
C22_Witness ==
    /\ observers
    /\ observed = {"Cancelled"}
    /\ handle = "consumed"
    /\ task = "dropped"

\* cancel() takes the state lock while the task is parked for good (polled
\* before, its future Pending, nothing having woken it) with no guard held
CancelFindsParked ==
    /\ handle = "cancelling"
    /\ handle' = "consumed"
    /\ task = "alive"
    /\ pc = "idle"
    /\ future = "Suspended"
    /\ ~scheduled
    /\ prevent_cancellation = 0

\* cancel() has found the task parked with no guard held and has woken it
CancelledWhileParked ==
    /\ found = "Polled"
    /\ woken # <<>>
    /\ task = "alive"
    /\ pc = "idle"
    /\ future = "Suspended"
    /\ prevent_cancellation = 0

\* C23, the call: cancel() on a task parked with no guard held finds Polled,
\* installs Cancelled and wakes the waker the first poll stored, which puts
\* the task back in the scheduler's run queue.
C23_CancelWakesParked ==
    [][CancelFindsParked
          => /\ state.tag = "Polled"
             /\ state.waker \in Wakers
             /\ woken' = woken \o <<state.waker>>
             /\ scheduled'
             /\ state' = StateCancelled]_vars

\* C23: if cancel() is called on a spawned task that is parked forever with no
\* guard held, the stored waker is woken, and under a scheduler that polls
\* woken tasks (and does not drop them) the task eventually resolves to None
\* and the observer eventually resolves to Cancelled.
C23_ParkedCancelEventuallyNone ==
    /\ C23_CancelWakesParked
    /\ CancelledWhileParked ~>
          (task = "dropped"
             \/ (pc = "done" /\ poll = "ReadyNone"
                   /\ TerminationObserverPoll = "Cancelled"))

\* C23 witness: the parked task was woken by cancel() alone, polled, and ended
\* as cancelled; an observer saw Cancelled.
C23_Witness ==
    /\ found = "Polled"
    /\ woken # <<>>
    /\ ~scheduled
    /\ future = "Suspended"
    /\ guards = 0
    /\ notification = "Pending"
    /\ pc = "done"
    /\ poll = "ReadyNone"
    /\ observed = {"Cancelled"}

\* a step of the user computation that ends one guard: exit_prevent_cancellation,
\* try_to_disable_cancellation, or the guard's drop
GuardReleaseStep ==
    /\ pc = "future"
    /\ pc' = "future"
    /\ guards' = guards - 1

\* C24, drop and exit: dropping a guard and calling exit_prevent_cancellation
\* on it both take exactly one off the counter and leave the notification.
C24_DropAsExit ==
    [][(GuardReleaseStep /\ returned'.op \in {"drop", "exit_prevent_cancellation"})
          => /\ prevent_cancellation' = prevent_cancellation - 1
             /\ notification' = notification
             /\ notified' = notified]_vars

\* C24, once each: whenever guards end (one by a call or a drop, all of them
\* when the future completes or the task is dropped) the counter falls by
\* exactly their number, a successful try_to_disable_cancellation keeping its
\* guard's contribution; the drop of the guard a call consumed takes nothing.
C24_ReleasedOnce ==
    [][guards' < guards
          => \/ prevent_cancellation' = prevent_cancellation - (guards - guards')
             \/ /\ TryToDisableStep
                /\ returned'.val = TRUE
                /\ prevent_cancellation' = prevent_cancellation]_vars

\* C24: dropping a Critical-Section Guard without explicit exit has the same
\* effect on prevent_cancellation as calling exit: each guard releases its
\* contribution exactly once, and a guard already consumed by
\* exit_prevent_cancellation or try_to_disable_cancellation does not decrement
\* again when dropped, so the counter never falls below the live guards.
C24_DropReleasesOnce ==
    /\ C24_DropAsExit
    /\ C24_ReleasedOnce
    /\ [](prevent_cancellation >= guards /\ guards >= 0)

\* C24 witness: of two guards one was consumed by a successful
\* try_to_disable_cancellation and the other was dropped; the counter holds
\* the first guard's contribution only.
C24_Witness ==
    /\ returned.op = "drop"
    /\ notification = "Disabled"
    /\ guards = 0
    /\ prevent_cancellation = 1

\* C25, the steps: the flag is already true in the state from which the
\* lifecycle state moves into Cancelled.
C25_FlagBeforeCancelled ==
    [][(state.tag # "Cancelled" /\ state'.tag = "Cancelled") => cancelled]_vars

\* C25, the states: lifecycle state Cancelled implies the flag is true, at a
\* poll's termination handoff in particular.
C25_CancelledImpliesFlag ==
    state.tag = "Cancelled" => cancelled

\* C25: in every reachable state, lifecycle state == Cancelled implies the
\* cancelled flag is true: cancel() stores the flag before it writes the
\* Cancelled state, so any poll that finds state Cancelled at its termination
\* handoff also finds the flag set.
C25_FlagSetBeforeState == []C25_CancelledImpliesFlag /\ C25_FlagBeforeCancelled

\* C25 witness: a poll that loaded the flag as false is at its termination
\* handoff and the state is Cancelled; the flag is set by now.
C25_Witness ==
    /\ pc = "exit"
    /\ ~is_cancelled
    /\ state.tag = "Cancelled"
    /\ cancelled

\* C26, the moves: the lifecycle state changes only by Pending -> Polled in the
\* first poll's registration, {Pending, Polled} -> Cancelled in cancel(), and
\* {Polled, Cancelled} -> Exited in a poll that returns Ready.
C26_OnlyLifecycleMoves ==
    [][state' # state
          => \/ /\ state.tag = "Pending"
                /\ state'.tag = "Polled"
                /\ pc = "idle" /\ ~started /\ started'
             \/ /\ state.tag \in {"Pending", "Polled"}
                /\ state' = StateCancelled
                /\ handle = "cancelling" /\ handle' = "consumed"
             \/ /\ state.tag \in {"Polled", "Cancelled"}
                /\ state' = StateExited
                /\ pc = "exit" /\ pc' = "done"
                /\ poll \in {"ReadyNone", "ReadySome"}]_vars

\* C26, Exited is terminal, for a later cancel() too.
C26_ExitedIsTerminal ==
    [][state.tag = "Exited" => state' = state]_vars

\* C26, the first poll's registration finding Cancelled leaves it.
C26_RegistrationKeepsCancelled ==
    [][(pc = "idle" /\ pc' = "poll_inner" /\ state.tag = "Cancelled")
          => state' = state]_vars

\* C26: the lifecycle state only moves along Pending -> Polled (first poll),
\* {Pending, Polled} -> Cancelled (cancel), and {Polled, Cancelled} -> Exited
\* (a poll returning Ready). Exited is terminal: a later cancel() leaves it
\* Exited; and first-poll registration never overwrites Cancelled with Polled.
C26_LifecycleTransitions ==
    /\ C26_OnlyLifecycleMoves
    /\ C26_ExitedIsTerminal
    /\ C26_RegistrationKeepsCancelled

\* C26 witness: cancel() found Pending, and the first poll has registered
\* since: the state is still Cancelled.
C26_Witness ==
    /\ found = "Pending"
    /\ started
    /\ pc = "poll_inner"
    /\ state = StateCancelled

\* C27, the start: until cancel() is called the flag is false.
C27_FalseUntilCancel ==
    handle = "alive" => ~cancelled

\* C27, the steps: only cancel()'s store raises the flag, and no step (a poll,
\* a guard's exit, try_to_disable_cancellation, the task's completion or drop)
\* lowers it.
C27_OnlyCancelRaises ==
    [][/\ cancelled => cancelled'
       /\ (~cancelled /\ cancelled') => (handle = "alive" /\ handle' = "cancelling")]_vars

\* C27: the cancelled flag is monotonic: it starts false, only cancel() sets it
\* to true, and no operation ever resets it to false.
C27_FlagMonotonic == []C27_FalseUntilCancel /\ C27_OnlyCancelRaises

\* C27 witness: after cancel() the computation disabled cancellation, left a
\* guard and completed with a value; the flag is still true.
C27_Witness ==
    /\ cancelled
    /\ is_cancelled
    /\ notification = "Disabled"
    /\ returned.op = "exit_prevent_cancellation"
    /\ pc = "done"
    /\ poll = "ReadySome"

\* a step that enters poll
PollEntryStep ==
    /\ pc = "idle"
    /\ pc' = "poll_inner"

\* C28, the first poll: entered with started == false, it sets started and
\* turns Pending into Polled with the waker it was called with, and leaves any
\* other state.
C28_FirstPollStores ==
    [][(PollEntryStep /\ ~started)
          => /\ started'
             /\ state.tag = "Pending" => state' = StatePolled(cx')
             /\ state.tag # "Pending" => state' = state]_vars

\* C28, later polls: entered with started == true, a poll leaves the state,
\* and the waker in it, as it is, whatever waker it is called with; started
\* stays set.
C28_LaterPollsKeep ==
    [][/\ (PollEntryStep /\ started) => state' = state
       /\ started => started']_vars

\* C28, one store: a waker is written into the state by the first poll only,
\* and a stored waker is never replaced by another.
C28_StoredOnce ==
    [][/\ (state'.tag = "Polled" /\ state' # state)
             => (PollEntryStep /\ ~started /\ state.tag = "Pending")
       /\ (state.tag = "Polled" /\ state'.tag = "Polled")
             => state'.waker = state.waker]_vars

\* C28: the waker is stored exactly once: only the first poll (started ==
\* false) may write the state, turning Pending into Polled with the current
\* waker; it sets started, and every later poll leaves the stored waker
\* unchanged even when polled with a different waker.
C28_WakerStoredOnce ==
    /\ C28_FirstPollStores
    /\ C28_LaterPollsKeep
    /\ C28_StoredOnce

\* C28 witness: a later poll was called with a waker other than the one the
\* first poll stored; the stored waker is the first poll's.
C28_Witness ==
    /\ started
    /\ pc = "poll_inner"
    /\ future = "Suspended"
    /\ state.tag = "Polled"
    /\ state.waker # cx

\* cancel()'s match under the state lock, and its return
CancelLockStep ==
    /\ handle = "cancelling"
    /\ handle' = "consumed"

\* C29, the call: finding Polled, cancel() installs Cancelled and wakes the
\* stored waker, once; finding Pending, it installs Cancelled and wakes
\* nothing; finding Exited, it wakes nothing and leaves the state.
C29_CancelWakesByState ==
    [][CancelLockStep
          => /\ state.tag = "Polled"
                  => /\ woken' = woken \o <<state.waker>>
                     /\ state.waker \in Wakers
                     /\ state' = StateCancelled
             /\ state.tag = "Pending"
                  => /\ woken' = woken
                     /\ scheduled' = scheduled
                     /\ state' = StateCancelled
             /\ state.tag = "Exited"
                  => /\ woken' = woken
                     /\ scheduled' = scheduled
                     /\ state' = state]_vars

\* C29, the states: a waker has been woken exactly when cancel() found
\* Polled, and then one waker, once; nothing but cancel() wakes through it.
C29_WokenOnlyIfPolled ==
    /\ Len(woken) <= 1
    /\ woken # <<>> <=> found = "Polled"

\* C29: cancel() wakes the task exactly when it finds the state Polled, and
\* then wakes the stored waker exactly once; when it finds Pending it installs
\* Cancelled without waking anything, and when it finds Exited it wakes
\* nothing and leaves the state unchanged.
C29_WakesExactlyWhenPolled == C29_CancelWakesByState /\ []C29_WokenOnlyIfPolled

\* C29 witness: cancel() found Polled while the task was being polled with
\* another waker than the stored one, and woke the stored one.
C29_Witness ==
    /\ found = "Polled"
    /\ state = StateCancelled
    /\ Len(woken) = 1
    /\ woken[1] # cx
    /\ cx \in Wakers

\* C30: cancel() never finds the lifecycle state already Cancelled: the single
\* handle is consumed by cancel(), so the state is not Cancelled while a
\* cancel() is under way, its match never takes the unreachable!() arm for
\* State::Cancelled, and the state it replaces in the Polled arm holds a waker.
C30_CancelNeverFindsCancelled ==
    /\ found # "Cancelled"
    /\ handle \in {"alive", "cancelling", "dropped"} => state.tag # "Cancelled"
    /\ (handle = "cancelling" /\ state.tag = "Polled") => state.waker \in Wakers
    /\ state.tag = "Cancelled" => (handle = "consumed" /\ found \in {"Pending", "Polled"})

\* C30 witness: cancel() has matched on Polled and installed Cancelled; the
\* handle is consumed and the state is still Cancelled.
C30_Witness ==
    /\ handle = "consumed"
    /\ found = "Polled"
    /\ state = StateCancelled
    /\ tx = "state"
    /\ pc = "future"

\* C31, the three outcomes: once cancel() has returned, it found Exited and
\* answered the observer itself, or it found Polled and woke the task, or it
\* found Pending, and then every poll that got as far as reading the flag read
\* it as true.
C31_CancelSeenOrWokenOrAnswered ==
    handle = "consumed" =>
        \/ /\ found = "Exited"
           /\ sent = <<[by |-> "cancel", status |-> "Finished"]>>
        \/ /\ found = "Polled"
           /\ woken # <<>>
        \/ /\ found = "Pending"
           /\ pc \in {"future", "exit", "done"} => is_cancelled

\* C31, no lost wake-up: a live task with no guard held that is between polls
\* with state Cancelled is in the scheduler's run queue.
C31_CancelledParkedIsScheduled ==
    (task = "alive" /\ pc = "idle" /\ state.tag = "Cancelled"
        /\ prevent_cancellation = 0) => scheduled

\* C31: no cancellation is lost to a race with polling: for every interleaving
\* of cancel() with a poll, either the poll reads the flag as true, or cancel()
\* finds Polled and wakes the task, or cancel() finds Exited and answers
\* itself; a task with no guards is never left parked forever with state
\* Cancelled and no wake-up pending: it is polled and ends, unless dropped.
C31_NoLostCancellation ==
    /\ [](C31_CancelSeenOrWokenOrAnswered /\ C31_CancelledParkedIsScheduled)
    /\ (task = "alive" /\ pc = "idle" /\ state.tag = "Cancelled"
          /\ prevent_cancellation = 0)
         ~> (task = "dropped" \/ (pc = "done" /\ poll = "ReadyNone"))

\* C31 witness: the first poll registered between cancel()'s flag store and
\* its state lock; cancel() found Polled and woke the task, and the poll read
\* the flag as true before ever polling the computation.
C31_Witness ==
    /\ found = "Polled"
    /\ woken # <<>>
    /\ is_cancelled
    /\ future = "Unpolled"
    /\ pc = "exit"
    /\ state = StateCancelled

\* C32: if cancel() installs state Cancelled during an inner poll whose
\* pre-poll flag read was false, and that inner poll returns Ready(v) with
\* prevent_cancellation == 0, the termination handoff sends Cancelled and
\* forces the task's result to Ready(None) instead of Ready(Some(v)).
C32_LateCancelForcesNone ==
    [][(/\ pc = "exit" /\ pc' = "done"
        /\ ~is_cancelled
        /\ future = "Completed"
        /\ state.tag = "Cancelled"
        /\ prevent_cancellation = 0)
          => /\ poll = "ReadySome"
             /\ poll' = "ReadyNone"
             /\ sent' = <<[by |-> "poll", status |-> "Cancelled"]>>
             /\ state' = StateExited
             /\ TerminationObserverPoll' = "Cancelled"]_vars

\* C32 witness: the poll read the flag as false, cancel() found Polled during
\* the inner poll, the computation returned Ready(v), and the handoff sent
\* Cancelled and returned Ready(None).
C32_Witness ==
    /\ pc = "done"
    /\ ~is_cancelled
    /\ found = "Polled"
    /\ future = "Completed"
    /\ prevent_cancellation = 0
    /\ poll = "ReadyNone"
    /\ sent = <<[by |-> "poll", status |-> "Cancelled"]>>

\* C33, the poll: a poll that reads cancelled == true while
\* prevent_cancellation > 0 goes on to poll the user computation: it decides
\* no result, keeps the counter and the guards, and only queues the
\* cancellation by firing the notification if it is still armed.
C33_PollsBodyWhileHeld ==
    [][(pc = "poll_inner" /\ pc' # pc /\ cancelled /\ prevent_cancellation > 0)
          => /\ is_cancelled'
             /\ pc' = "future"
             /\ future' = "Running"
             /\ poll' = poll
             /\ prevent_cancellation' = prevent_cancellation
             /\ guards' = guards
             /\ notification' = (IF notification = "Pending" THEN "Notified"
                                                            ELSE notification)
             /\ task' = "alive"]_vars

\* C33, the section: while the computation runs in a poll with the counter
\* above zero, no result is forced on the poll.
C33_NotSkippedMidSection ==
    (pc = "future" /\ prevent_cancellation > 0) => poll # "ReadyNone"

\* C33: if a poll reads cancelled == true while prevent_cancellation > 0, it
\* still polls the user computation in that poll (the body of the critical
\* section keeps running); cancellation is only queued and the computation is
\* not dropped or skipped mid-section.
C33_CancelQueuedInSection == C33_PollsBodyWhileHeld /\ []C33_NotSkippedMidSection

\* C33 witness: cancel() found the task parked inside a section; the next poll
\* read the flag, fired the notification and is polling the computation, its
\* guard still held.
C33_Witness ==
    /\ found = "Polled"
    /\ state = StateCancelled
    /\ is_cancelled
    /\ pc = "future"
    /\ future = "Running"
    /\ guards > 0
    /\ prevent_cancellation = guards
    /\ notification = "Notified"

\* a step of the user computation that enters a structured-cancellation scope
EnterStructuredStep ==
    /\ pc = "future"
    /\ pc' = "future"
    /\ guards' = guards + 1
    /\ returned'.op = "enter_structured_cancellation"

\* C34, the observers: once the notification has Fired its channel carries
\* the (), so every Cancellation Observer, a clone of the one shared receiver,
\* resolves, those of outer and of inner scopes alike.
C34_FiredResolvesObservers ==
    notification = "Notified" => CancellationObserverPoll = "Ready"

\* C34, a late scope: a structured-cancellation scope entered after the
\* firing gets an observer that resolves, and takes its hold on the counter.
C34_LateScopeObserverResolves ==
    [][(EnterStructuredStep /\ notification = "Notified")
          => /\ observer_rx'
             /\ CancellationObserverPoll' = "Ready"
             /\ notification' = "Notified"
             /\ prevent_cancellation' = prevent_cancellation + 1]_vars

\* C34, for good: an observer that resolves keeps resolving.
C34_StaysResolved ==
    [][CancellationObserverPoll = "Ready" => CancellationObserverPoll' = "Ready"]_vars

\* C34, deferral: while a scope is held after cancellation was observed, no
\* poll has the cancelled result, and none is about to return.
C34_HeldScopeDefers ==
    (notification = "Notified" /\ guards > 0)
        => (poll # "ReadyNone" /\ pc \in {"idle", "poll_inner", "future"})

\* C34: once the notification has Fired, every Cancellation Observer
\* resolves, including observers created by structured-cancellation scopes
\* entered after the firing and observers of outer and inner nested scopes
\* alike; entering a scope after cancellation was observed still defers the
\* cancelled result until that scope exits.
C34_FiredNotifiesAllScopes ==
    /\ [](C34_FiredResolvesObservers /\ C34_HeldScopeDefers)
    /\ C34_LateScopeObserverResolves
    /\ C34_StaysResolved

\* C34 witness: with the notification Fired, a structured-cancellation scope
\* was entered inside another and the task was suspended in it: the poll
\* returned Pending, and the observers resolve.
C34_Witness ==
    /\ notification = "Notified"
    /\ returned.op = "enter_structured_cancellation"
    /\ observer_rx
    /\ guards = 2
    /\ is_cancelled
    /\ pc = "idle"
    /\ poll = "Pending"
    /\ CancellationObserverPoll = "Ready"

\* C35, the frame: entering a critical section or a structured-cancellation
\* scope, exit_prevent_cancellation and a guard's drop leave the notification
\* and its channel as they are.
C35_ScopesKeepNotification ==
    [][(/\ pc = "future" /\ pc' = "future"
        /\ returned'.op \in {"enter_critical_section", "enter_structured_cancellation",
                             "exit_prevent_cancellation", "drop"}
        /\ guards' # guards)
          => (notification' = notification /\ notified' = notified)]_vars

\* C35, the writers: the notification changes only Armed -> Fired, in a poll's
\* notify_cancelled, and Armed -> Disarmed, in try_to_disable_cancellation;
\* Fired and Disarmed are absorbing.
C35_OnlyTwoWriters ==
    [][notification' # notification
          => /\ notification = "Pending"
             /\ \/ /\ notification' = "Notified"
                   /\ pc = "poll_inner" /\ pc' = "future" /\ cancelled
                \/ /\ notification' = "Disabled"
                   /\ TryToDisableStep]_vars

\* C35, re-entry: as long as no poll has read cancelled == true and no
\* try_to_disable_cancellation ran, the notification is Armed, whatever
\* scopes were entered and left.
C35_ArmedAfterQuietScopes ==
    (~is_cancelled /\ returned.op # "try_to_disable_cancellation"
        /\ notification # "Disabled")
        => notification = "Pending"

\* C35: entering or exiting a critical section or structured-cancellation
\* scope leaves the notification state unchanged: only notify_cancelled
\* (Armed -> Fired) and try_to_disable_cancellation (Armed -> Disarmed) change
\* it, so a scope that exits without cancellation leaves the notification
\* Armed and a later scope can still be notified; Fired and Disarmed are both
\* absorbing.
C35_NotificationFrame ==
    /\ C35_ScopesKeepNotification
    /\ C35_OnlyTwoWriters
    /\ []C35_ArmedAfterQuietScopes

\* C35 witness: a structured-cancellation scope was entered and left by
\* exit_prevent_cancellation without cancel() being called; the notification
\* is Armed and nothing was sent on its channel.
C35_Witness ==
    /\ observer_rx
    /\ returned.op = "exit_prevent_cancellation"
    /\ guards = 0
    /\ handle = "alive"
    /\ ~cancelled
    /\ notification = "Pending"
    /\ notified = 0
    /\ future = "Suspended"

\* C36, the steps: whenever the counter falls, it falls from a value at least
\* as large as the fall and by no more than the guards that end in the step:
\* each decrement has its own earlier increment.
C36_DecrementsAreMatched ==
    [][prevent_cancellation' < prevent_cancellation
          => /\ prevent_cancellation > 0
             /\ prevent_cancellation' >= 0
             /\ prevent_cancellation - prevent_cancellation' <= guards - guards']_vars

\* C36, the states: the counter is never below zero, nor below the number of
\* guards that can still decrement it.
C36_CounterCoversGuards ==
    /\ prevent_cancellation >= 0
    /\ prevent_cancellation >= guards
    /\ guards >= 0

\* C36: prevent_cancellation never underflows: each decrement in
\* exit_prevent_cancellation is preceded by an unmatched increment, so the
\* unsigned counter is never decremented at zero, including on the failure
\* path of try_to_disable_cancellation and on guard drop.
C36_NoUnderflow == C36_DecrementsAreMatched /\ []C36_CounterCoversGuards

\* C36 witness: the failure path of try_to_disable_cancellation took the
\* counter from one to zero, the computation still running.
C36_Witness ==
    /\ returned = [op |-> "try_to_disable_cancellation", val |-> FALSE]
    /\ pc = "future"
    /\ future = "Running"
    /\ guards = 0
    /\ prevent_cancellation = 0

\* C37, the firing: the notification becomes Fired only in a poll that reads
\* cancelled == true while prevent_cancellation > 0, before its inner poll.
C37_FiredOnlyByCancelledPoll ==
    [][(notification # "Notified" /\ notification' = "Notified")
          => /\ pc = "poll_inner" /\ pc' = "future"
             /\ cancelled
             /\ is_cancelled'
             /\ prevent_cancellation > 0
             /\ notified' = notified + 1]_vars

\* C37, the states: a Fired notification, a () on its channel and a resolved
\* Cancellation Observer each imply that cancel() was called and stored the
\* flag, and that a poll read it.
C37_FiredImpliesCancelled ==
    (notification = "Notified" \/ notified > 0 \/ CancellationObserverPoll = "Ready")
        => /\ cancelled
           /\ is_cancelled
           /\ handle \in {"cancelling", "consumed"}

\* C37: the notification is never fired spuriously: in every reachable state,
\* notification == Fired implies the cancelled flag is true, because
\* notify_cancelled is only called from a poll that read cancelled == true
\* while prevent_cancellation > 0; a Cancellation Observer therefore never
\* resolves unless cancel() was called.
C37_NeverFiredSpuriously == []C37_FiredImpliesCancelled /\ C37_FiredOnlyByCancelledPoll

\* C37 witness: cancel() has stored the flag and not yet taken the state; a
\* poll inside a structured-cancellation scope read the flag and fired the
\* notification.
C37_Witness ==
    /\ handle = "cancelling"
    /\ observer_rx
    /\ guards > 0
    /\ notification = "Notified"
    /\ CancellationObserverPoll = "Ready"
    /\ pc = "future"

====
